---- MODULE Spec2Model ----
(***************************************************************************)
(* Boone's method for the preconsolidation pressure (pysimgap/boone.py).   *)
(*                                                                         *)
(* The model follows Boone.getSigmaP: the selection of the two fit windows *)
(* (Python slices over data.cleaned), the first-order least-squares fit of *)
(* the normally consolidated line (NCL), the line parallel to Cr through   *)
(* (sigmaV, eSigmaV), their intersection stored in self.sigmaP, and the    *)
(* plotting that follows.  Arithmetic is exact: a real number is a pair of *)
(* integers (numerator, denominator); stresses are powers of ten, so that  *)
(* log10 is an integer.                                                    *)
(***************************************************************************)
EXTENDS Integers, Sequences, FiniteSets

\* ---------------------------------------------------------------- bounds
MaxLen == 4        \* longest cleaned series of specification Spec
MaxN == 13         \* longest cleaned series of specification SpecSel

\* ------------------------------------------------------------ arithmetic
Abs(v) == IF v < 0 THEN -v ELSE v

Min(a, b) == IF a < b THEN a ELSE b

Max(a, b) == IF a > b THEN a ELSE b

RECURSIVE GCD(_, _)
GCD(a, b) == IF b = 0 THEN Abs(a) ELSE GCD(b, a % b)

RECURSIVE Pow10(_)
Pow10(k) == IF k = 0 THEN 1 ELSE 10 * Pow10(k - 1)

\* np.log10 of a stress of the model (a power of ten)
RECURSIVE Log10(_)
Log10(s) == IF s < 10 THEN 0 ELSE 1 + Log10(s \div 10)

\* the real number num/den, den # 0, in lowest terms with a positive denominator
Frac(num, den) ==
    LET g == GCD(Abs(num), Abs(den))
        s == IF den < 0 THEN -1 ELSE 1
    IN  [num |-> (s * num) \div g, den |-> (s * den) \div g]

RECURSIVE SumOver(_, _)
SumOver(f, S) ==
    IF S = {} THEN 0
    ELSE LET i == CHOOSE j \in S : TRUE IN f[i] + SumOver(f, S \ {i})

\* ------------------------------------------------------- optional values
None == {}

Some(v) == {v}

Val(o) == CHOOSE v \in o : TRUE

\* a range2fit argument: <<>> when omitted, <<initial, final>> otherwise
NoRange == <<>>

\* --------------------------------------------------------------- state
VARIABLES
    data,       \* self.data: cleaned, raw, sigmaV, idxCr
    sigmaP,     \* self.sigmaP
    rangeTOP,   \* range2fitTOP of the last call
    rangeNCL,   \* range2fitNCL of the last call
    idxTOP,     \* <<idxInitTOP, idxEndTOP>> of the last call
    idxNCL,     \* <<idxInitNCL, idxEndNCL>> of the last call (idxEndNCL optional)
    winTOP,     \* indices of data.cleaned in sigmaTOP / eTOP
    winNCL,     \* indices of data.cleaned in sigmaNCL / eNCL
    fit,        \* eSigmaV, p2_0, p2_1, eCr, eSigmaP of the last call
    outcome     \* how the last call ended

vars == <<data, sigmaP, rangeTOP, rangeNCL, idxTOP, idxNCL, winTOP, winNCL, fit, outcome>>

N == Len(data.cleaned)

\* data.cleaned['stress'].iloc[i], data.cleaned['e'].iloc[i]  (0-based)
StressAt(i) == data.cleaned[i + 1].stress

EAt(i) == data.cleaned[i + 1].e

\* data.cleaned['stress'].max()
MaxStress == LET S == {StressAt(i) : i \in 0..(N - 1)}
             IN  CHOOSE m \in S : \A s \in S : s <= m

\* ------------------------------------------------ data-access collaborator
\* Data.findStressIdx(stress2find, cleanedData=True): the indices of the
\* cleaned series nearest to the stress (more than one on a tie)
findStressIdx(stress2find) ==
    {i \in 0..(N - 1) :
        \A j \in 0..(N - 1) :
            Abs(StressAt(i) - stress2find) <= Abs(StressAt(j) - stress2find)}

\* ------------------------------------------------------ window selection
\* int(np.floor(len(self.data.cleaned) / 3))
TOPInitDefault_ceil(n) == (n + 2) \div 3

TOPInitDefault(n) == n \div 3

\* int(np.ceil(2 * len(self.data.cleaned) / 3))
TOPEndDefault_floor(n) == (2 * n) \div 3

TOPEndDefault(n) == (2 * n + 2) \div 3

\* idxInitNCL of the default NCL window
NCLInitDefault_m2 == 0 - 2

NCLInitDefault == -3

\* the values idxInitTOP / idxEndTOP can take
IdxInitTOP(rt) == IF rt = NoRange THEN {TOPInitDefault(N)} ELSE findStressIdx(rt[1])

IdxEndTOP(rt) == IF rt = NoRange THEN {TOPEndDefault(N)} ELSE findStressIdx(rt[2])

\* the values idxInitNCL can take
IdxInitNCL(rn) == IF rn = NoRange THEN {NCLInitDefault} ELSE findStressIdx(rn[1])

\* the values idxEndNCL can take: an index, or None
IdxEndNCL_le(rn) ==
    IF rn = NoRange THEN {None}
    ELSE IF rn[2] <= MaxStress THEN {Some(i) : i \in findStressIdx(rn[2])}
    ELSE {None}

IdxEndNCL(rn) ==
    IF rn = NoRange THEN {None}
    ELSE IF rn[2] < MaxStress THEN {Some(i) : i \in findStressIdx(rn[2])}
    ELSE {None}

\* a slice bound of a series of n points: negative counts from the end, and
\* both ends are clipped to the series
SliceBound(n, v) == IF v < 0 THEN Max(v + n, 0) ELSE Min(v, n)

\* the positions selected by series[lo:hi]; hi is optional (None: to the end)
Slice(n, lo, hi) ==
    LET a == SliceBound(n, lo)
        b == IF hi = None THEN n ELSE SliceBound(n, Val(hi))
    IN  {i \in 0..(n - 1) : a <= i /\ i < b}

\* ------------------------------------------------------------- the fits
\* polyfit(sigmaNCLlog, eNCL, deg=1) on a non-empty window: p2_0 = iN/D and
\* p2_1 = sN/D with D > 0.  One point (x0, y0) is rank deficient: lstsq on
\* the column-scaled system returns the minimum-norm solution.
PolyfitNCL(win) ==
    LET m   == Cardinality(win)
        x   == [i \in win |-> Log10(StressAt(i))]
        y   == [i \in win |-> EAt(i)]
        Sx  == SumOver(x, win)
        Sy  == SumOver(y, win)
        Sxx == SumOver([i \in win |-> x[i] * x[i]], win)
        Sxy == SumOver([i \in win |-> x[i] * y[i]], win)
        i0  == CHOOSE i \in win : TRUE
    IN  IF m = 1
        THEN IF x[i0] = 0 THEN [iN |-> y[i0], sN |-> 0, D |-> 1]
             ELSE [iN |-> y[i0] * x[i0], sN |-> y[i0], D |-> 2 * x[i0]]
        ELSE [iN |-> Sy * Sxx - Sx * Sxy,
              sN |-> m * Sxy - Sx * Sy,
              D  |-> m * Sxx - Sx * Sx]

\* eCr = eSigmaV - (-self.data.idxCr * np.log10(self.data.sigmaV))
ECr_minus(eSigmaV) == eSigmaV - (data.idxCr * Log10(data.sigmaV))

ECr(eSigmaV) == eSigmaV - ((-data.idxCr) * Log10(data.sigmaV))

\* numerator and denominator of (p2_0 - eCr) / (-idxCr - p2_1), both times D
XNum(p2, eCr) == p2.iN - eCr * p2.D

XDen(p2) == (-data.idxCr) * p2.D - p2.sN

\* 10 ** ((p2_0 - eCr) / (-self.data.idxCr - p2_1)).  A zero denominator is
\* a floating-point division by zero: inf, -inf or nan, and no exception.
Intersection(p2, eCr) ==
    LET n == XNum(p2, eCr)
        d == XDen(p2)
    IN  IF d # 0 THEN [kind |-> "finite", log |-> Frac(n, d)]
        ELSE IF n > 0 THEN [kind |-> "inf", log |-> Frac(0, 1)]
        ELSE IF n < 0 THEN [kind |-> "zero", log |-> Frac(0, 1)]
        ELSE [kind |-> "nan", log |-> Frac(0, 1)]

\* polyval(np.log10(self.sigmaP), [p2_0, p2_1]) for a finite sigmaP
ESigmaP(p2, sp) ==
    IF sp.kind = "finite"
    THEN Frac(p2.iN * sp.log.den + p2.sN * sp.log.num, p2.D * sp.log.den)
    ELSE Frac(0, 1)

\* self.sigmaP = ...  (the assignment of the result to the field)
StoreSigmaP_skip(old, new) == old

StoreSigmaP(old, new) == new

\* ------------------------------------------------------------ the inputs
Unset == [kind |-> "unset", log |-> Frac(0, 1)]

NoFit == [eSigmaV |-> 0, p2 |-> [iN |-> 0, sN |-> 0, D |-> 1], eCr |-> 0,
          eSigmaP |-> Frac(0, 1)]

\* void ratios, recompression indices and in-situ stresses of the inputs, and
\* the values the third-order fit can give at sigmaV
EVals == {0, 1, 2}

IdxCrVals == {1, 2}

SigmaVVals == {10, 100}

ESigmaVVals == {1, 2}

\* void ratios of n loading stages: from the largest value, never growing
ESeqs(n) ==
    {s \in [1..n -> EVals] :
        /\ \A v \in EVals : v <= s[1]
        /\ \A i \in 1..(n - 1) : s[i] >= s[i + 1]}

\* a cleaned series of n stages, one decade of stress per stage
Cleaned(n, es) == [i \in 1..n |-> [stress |-> Pow10(i - 1), e |-> es[i]]]

\* the raw series: the cleaned one followed by the final unloading stage
Raw(c) == Append(c, [stress |-> c[1].stress, e |-> c[Len(c)].e])

\* the ranges a caller passes: omitted, boundaries on stresses of the series,
\* a boundary half way between two stresses (55), a reversed range, and an
\* end at or above the maximum stress
RangesTOP == {NoRange, <<10, 100>>, <<100, 10>>, <<55, 1000>>}

RangesNCL == {NoRange, <<10, 1000>>, <<55, 100>>, <<1000, 1000>>, <<10, 100>>}

\* ---------------------------------------------------------------- Init
Init ==
    /\ \E n \in 1..MaxLen, sV \in SigmaVVals, cr \in IdxCrVals :
         \E es \in ESeqs(n) :
            data = [cleaned |-> Cleaned(n, es), raw |-> Raw(Cleaned(n, es)),
                    sigmaV |-> sV, idxCr |-> cr]
    /\ sigmaP = Unset
    /\ rangeTOP = NoRange
    /\ rangeNCL = NoRange
    /\ idxTOP = <<0, 0>>
    /\ idxNCL = <<0, None>>
    /\ winTOP = {}
    /\ winNCL = {}
    /\ fit = NoFit
    /\ outcome = "none"

\* ------------------------------------------------------------ getSigmaP
\* One call of Boone.getSigmaP(range2fitTOP=rt, range2fitNCL=rn).  eSV is
\* the value polyval returns for the third-order fit at log10(sigmaV);
\* plotOk tells whether the plotting of lines 120-149 raises.
GetSigmaP(rt, rn, eSV, plotOk) ==
    \E iT \in IdxInitTOP(rt), jT \in IdxEndTOP(rt),
       iN \in IdxInitNCL(rn), jN \in IdxEndNCL(rn) :
        LET wT  == Slice(N, iT, Some(jT))
            wN  == Slice(N, iN, jN)
            p2  == PolyfitNCL(wN)
            eCr == ECr(eSV)
            sp  == Intersection(p2, eCr)
        IN  /\ rangeTOP' = rt
            /\ rangeNCL' = rn
            /\ idxTOP' = <<iT, jT>>
            /\ idxNCL' = <<iN, jN>>
            /\ winTOP' = wT
            /\ IF wT = {}
               THEN \* polyfit(sigmaTOPlog, eTOP, deg=3) raises on an empty x
                    /\ winNCL' = {}
                    /\ fit' = NoFit
                    /\ sigmaP' = sigmaP
                    /\ outcome' = "TypeErrorTOP"
               ELSE IF wN = {}
               THEN \* polyfit(sigmaNCLlog, eNCL, deg=1) raises on an empty x
                    /\ winNCL' = wN
                    /\ fit' = NoFit
                    /\ sigmaP' = sigmaP
                    /\ outcome' = "TypeErrorNCL"
               ELSE /\ winNCL' = wN
                    /\ fit' = [eSigmaV |-> eSV, p2 |-> p2, eCr |-> eCr,
                               eSigmaP |-> ESigmaP(p2, sp)]
                    /\ sigmaP' = StoreSigmaP(sigmaP, sp)
                    /\ outcome' = IF plotOk THEN "fig" ELSE "PlotError"
            /\ UNCHANGED data

Next == \E rt \in RangesTOP, rn \in RangesNCL, eSV \in ESigmaVVals, plotOk \in BOOLEAN :
            GetSigmaP(rt, rn, eSV, plotOk)

Spec == Init /\ [][Next]_vars

\* ------------------------------------------- window selection on its own
\* The selection of the two windows (lines 71-92 and 102-104) as a function
\* of the length of the series and the two ranges, on series of up to MaxN
\* stages at 25, 50, 75, ... kPa.
SelStress(i) == 25 * i

SelRangeVals == {25, 60, 100}

SelRanges == {NoRange} \cup (SelRangeVals \X SelRangeVals)

InitSel ==
    /\ \E n \in 1..MaxN :
         LET c == [i \in 1..n |-> [stress |-> SelStress(i), e |-> 0]]
         IN  data = [cleaned |-> c, raw |-> Raw(c), sigmaV |-> 10, idxCr |-> 1]
    /\ sigmaP = Unset
    /\ rangeTOP = NoRange
    /\ rangeNCL = NoRange
    /\ idxTOP = <<0, 0>>
    /\ idxNCL = <<0, None>>
    /\ winTOP = {}
    /\ winNCL = {}
    /\ fit = NoFit
    /\ outcome = "none"

SelectWindows(rt, rn) ==
    \E iT \in IdxInitTOP(rt), jT \in IdxEndTOP(rt),
       iN \in IdxInitNCL(rn), jN \in IdxEndNCL(rn) :
        /\ rangeTOP' = rt
        /\ rangeNCL' = rn
        /\ idxTOP' = <<iT, jT>>
        /\ idxNCL' = <<iN, jN>>
        /\ winTOP' = Slice(N, iT, Some(jT))
        /\ winNCL' = Slice(N, iN, jN)
        /\ outcome' = "selected"
        /\ UNCHANGED <<data, sigmaP, fit>>

NextSel == \E rt \in SelRanges, rn \in SelRanges : SelectWindows(rt, rn)

SpecSel == InitSel /\ [][NextSel]_vars

\* ================================================================ claims
Reached == outcome \in {"fig", "PlotError"}

\* the positions floor(n/3) <= i < ceil(2n/3) of a series of n points
MiddleThird(n) == {i \in 0..(n - 1) : 3 * (i + 1) > n /\ 3 * i < 2 * n}

\* the last three positions of a series of n points
LastThree(n) == {i \in 0..(n - 1) : i >= n - 3}

MinOf(S) == CHOOSE m \in S : \A v \in S : m <= v

MaxOf(S) == CHOOSE m \in S : \A v \in S : v <= m

\* C1: with range2fitTOP omitted, the TOP window is exactly the positions i
\* with floor(n/3) <= i < ceil(2n/3) of the cleaned series, for every n.
C1_DefaultTOPWindow ==
    (outcome = "selected" /\ rangeTOP = NoRange) => winTOP = MiddleThird(N)

C1_Witness ==
    outcome = "selected" /\ rangeTOP = NoRange /\ N = 7 /\ winTOP = {2, 3, 4}

C3_DefaultNCLWindow ==
    (outcome = "selected" /\ rangeNCL = NoRange /\ N >= 4) =>
        winNCL = {N - 3, N - 2, N - 1}

C3_Witness ==
    outcome = "selected" /\ rangeNCL = NoRange /\ N = 7 /\ winNCL = {4, 5, 6}

\* C4: on a series of at least 4 points, a call whose supplied range
\* resolves to fewer points than the fit
\* needs (fewer than 4 for the TOP window, fewer than 2 for the NCL window)
\* fails (with InvalidRangeError): it does not return a figure and a result.
C4_InvalidRangeError ==
    (/\ N >= 4 /\ outcome # "none"
     /\ \/ rangeTOP # NoRange /\ Cardinality(winTOP) < 4
        \/ rangeNCL # NoRange /\ outcome # "TypeErrorTOP" /\ Cardinality(winNCL) < 2)
    => outcome # "fig"

\* C5: on a series of at least 4 points, when the line parallel to Cr and
\* the fitted NCL are parallel
\* (-idxCr = p2_1) the call fails (with NoIntersectionError): no call whose
\* denominator -idxCr - p2_1 is zero stores a sigmaP and returns.
C5_NoIntersectionError == ~(N >= 4 /\ outcome = "fig" /\ XDen(fit.p2) = 0)

\* C6: on a series of at least 4 points, a call that passes as ranges the
\* first and last stress of the default
\* TOP window and of the default NCL window selects the windows a call with
\* both ranges omitted selects.
C6_DefaultEquivalence ==
    (/\ N >= 4 /\ outcome # "none"
     /\ rangeTOP = <<StressAt(MinOf(MiddleThird(N))), StressAt(MaxOf(MiddleThird(N)))>>
     /\ rangeNCL = <<StressAt(MinOf(LastThree(N))), StressAt(MaxOf(LastThree(N)))>>)
    => /\ winTOP = MiddleThird(N)
       /\ outcome # "TypeErrorTOP" => winNCL = LastThree(N)

C8_IntersectionOnBothLines ==
    (Reached /\ sigmaP.kind = "finite") =>
        LET x  == sigmaP.log
            p2 == fit.p2
            eP == fit.eSigmaP
            onNCL == p2.iN * x.den + p2.sN * x.num
            onCr  == fit.eCr * x.den - data.idxCr * x.num
        IN  /\ onNCL = onCr * p2.D
            /\ eP.num * p2.D * x.den = eP.den * onNCL
            /\ eP.num * x.den = eP.den * onCr
            /\ fit.eCr - data.idxCr * Log10(data.sigmaV) = fit.eSigmaV

C8_Witness ==
    N >= 4 /\ outcome = "fig" /\ sigmaP.kind = "finite" /\ sigmaP.log.den > 1

\* C9: on a series of at least 4 points, a call that ends in an error
\* leaves the stored sigmaP as it was.
C9_NoPartialState ==
    [][(N >= 4 /\ outcome' \in {"TypeErrorTOP", "TypeErrorNCL", "PlotError"}) =>
           sigmaP' = sigmaP]_vars

\* C10 (as stated): for every cleaned series of at least 4 points the default
\* TOP window has at least 4 points and the default NCL window at least 2.
C10_DefaultWindowsSuffice ==
    (outcome = "selected" /\ N >= 4) =>
        /\ rangeTOP = NoRange => Cardinality(winTOP) >= 4
        /\ rangeNCL = NoRange => Cardinality(winNCL) >= 2

\* C10 (amended): for every cleaned series of at least 4 points the default
\* NCL window has at least 2 points, and the default TOP window has at least
\* 4 points exactly when n = 8 or n >= 10.
C10_DefaultWindowSizes ==
    (outcome = "selected" /\ N >= 4) =>
        /\ rangeTOP = NoRange =>
              (Cardinality(winTOP) >= 4 <=> (N = 8 \/ N >= 10))
        /\ rangeNCL = NoRange => Cardinality(winNCL) >= 2

C10_Witness ==
    /\ outcome = "selected" /\ rangeTOP = NoRange /\ rangeNCL = NoRange
    /\ N = 10 /\ winTOP = {3, 4, 5, 6}

====
